---- MODULE Spec2Model ----
(***************************************************************************)
(* A model of server/src/rbx_snapshot.rs: the projection of a project      *)
(* manifest and an in-memory filesystem (imfs) into a snapshot tree.       *)
(*                                                                         *)
(* The recursion of the Rust code is unfolded into an explicit call stack: *)
(* one frame per active call of snapshot_instance_node,                    *)
(* snapshot_sync_point_node and snapshot_imfs_directory; `ret` holds the   *)
(* value a finished callee hands to the frame below it.  File projection   *)
(* (snapshot_imfs_file and the decoders) makes no recursive call and is a  *)
(* pure operator.                                                          *)
(*                                                                         *)
(* A string is a sequence of symbols, a symbol being "." or a dot-free     *)
(* word: "foo.server.lua" is <<"foo", ".", "server", ".", "lua">>.  A path *)
(* is a sequence of components, each component a string.                   *)
(***************************************************************************)
EXTENDS Integers, Sequences, FiniteSets, TLC

\* ------------------------------------------------------------------------
\* Strings and paths
\* ------------------------------------------------------------------------

DOT == "."

Str(w) == <<w>>

Ext(stem, e) == stem \o <<DOT, e>>

INIT_MODULE_NAME == <<"init", DOT, "lua">>

INIT_SERVER_NAME == <<"init", DOT, "server", DOT, "lua">>

INIT_CLIENT_NAME == <<"init", DOT, "client", DOT, "lua">>

SERVER_TRAILER == <<DOT, "server", DOT, "lua">>

CLIENT_TRAILER == <<DOT, "client", DOT, "lua">>

\* usize::saturating_sub
saturating_sub(a, b) == IF a >= b THEN a - b ELSE 0

\* str::ends_with
ends_with(input, trailer) ==
    /\ Len(input) >= Len(trailer)
    /\ SubSeq(input, Len(input) - Len(trailer) + 1, Len(input)) = trailer

\* Option and Result values
None == [tag |-> "None"]

Some(v) == [tag |-> "Some", val |-> v]

Err(e) == [tag |-> "Err", err |-> e]

\* A panic (unwrap of None, expect, panic!) is no SnapshotResult: it aborts.
Panic(msg) == [tag |-> "Panic", msg |-> msg]

NoRet == [tag |-> "NoRet"]

match_trailing(input, trailer) ==
    IF ends_with(input, trailer)
    THEN LET end == saturating_sub(Len(input), Len(trailer))
         IN  Some(SubSeq(input, 1, end))
    ELSE None

\* Path::join with a relative single component
join(path, name) == Append(path, name)

\* Path::file_name
file_name(path) == path[Len(path)]

\* The position of the last "." of a file name, 0 if there is none
LastDot(name) ==
    LET dots == {i \in 1..Len(name) : name[i] = DOT}
    IN  IF dots = {} THEN 0 ELSE CHOOSE i \in dots : \A j \in dots : j <= i

\* extension, taking what follows the first "." of the name instead
extension_from_first_dot(path) ==
    LET name == file_name(path)
        dots == {i \in 1..Len(name) : name[i] = DOT}
    IN  IF dots = {} \/ (1 \in dots /\ Cardinality(dots) = 1) THEN None
        ELSE LET k == CHOOSE i \in dots \ {1} : \A j \in dots \ {1} : i <= j
             IN  Some(SubSeq(name, k + 1, Len(name)))

\* Path::extension: None without an embedded ".", None for a name that begins
\* with its only ".", else what follows the last "."
extension(path) ==
    LET name == file_name(path)
        k == LastDot(name)
    IN  IF k <= 1 THEN None ELSE Some(SubSeq(name, k + 1, Len(name)))

\* Path::file_stem: the whole name where extension is None, else what
\* precedes the last "."
file_stem(path) ==
    LET name == file_name(path)
        k == LastDot(name)
    IN  IF k <= 1 THEN name ELSE SubSeq(name, 1, k - 1)

\* ------------------------------------------------------------------------
\* Snapshot instances and the external codecs
\* ------------------------------------------------------------------------

\* RbxSnapshotInstance.  name is a string, class_name a class tag, properties
\* a set of <<key, value>> pairs, children a sequence of instances,
\* source_path and metadata Options.
RbxSnapshotInstance(name, class_name, properties, children, source_path, metadata) ==
    [name |-> name, class_name |-> class_name, properties |-> properties,
     children |-> children, source_path |-> source_path, metadata |-> metadata]

\* SnapshotError
DidNotExist(path) == [kind |-> "DidNotExist", path |-> path]

Utf8Error(path) == [kind |-> "Utf8Error", path |-> path]

XmlModelDecodeError(path) == [kind |-> "XmlModelDecodeError", path |-> path]

BinaryModelDecodeError(path) == [kind |-> "BinaryModelDecodeError", path |-> path]

\* File contents are named byte strings; the codecs the decoders call are
\* tables over them.
InvalidUtf8Bytes == {"bytes:ff"}

\* str::from_utf8
from_utf8(contents) ==
    IF contents \in InvalidUtf8Bytes THEN Err("Utf8Error") ELSE Some(contents)

\* The tree rbx_xml::decode / rbx_binary::decode build under the temporary
\* root: the root's children, or a decode error.
EmbeddedRoot ==
    [name |-> Str("Embedded"), class_name |-> "Part", properties |-> {<<"Anchored", "true">>}]

model_decode(contents) ==
    CASE contents = "model:0" -> Some(<<>>)
      [] contents = "model:1" -> Some(<<EmbeddedRoot>>)
      [] contents = "model:2" -> Some(<<EmbeddedRoot, EmbeddedRoot>>)
      [] OTHER -> Err("DecodeError")

\* snapshot_from_tree on a childless root instance of the decoded tree
snapshot_from_tree(root) ==
    RbxSnapshotInstance(root.name, root.class_name, root.properties, <<>>, None, None)

\* csv::Reader ... deserialize, then serde_json::to_string: the JSON text, or
\* the panic of result.expect on a malformed row
csv_to_json(contents) ==
    CASE contents = "csv:greet" -> Some("json:[greet]")
      [] contents = "csv:empty" -> Some("json:[]")
      [] OTHER -> None

\* ------------------------------------------------------------------------
\* File decoders
\* ------------------------------------------------------------------------

snapshot_lua_file(file) ==
    LET fname == file_name(file.path)
        server == match_trailing(fname, SERVER_TRAILER)
        client == match_trailing(fname, CLIENT_TRAILER)
        instance_name == IF server.tag = "Some" THEN server.val
                         ELSE IF client.tag = "Some" THEN client.val
                         ELSE fname
        class_name == IF server.tag = "Some" THEN "Script"
                      ELSE IF client.tag = "Some" THEN "LocalScript"
                      ELSE "ModuleScript"
        contents == from_utf8(file.contents)
    IN  IF contents.tag = "Err" THEN Err(Utf8Error(file.path))
        ELSE Some(RbxSnapshotInstance(instance_name, class_name,
                                      {<<"Source", contents.val>>}, <<>>,
                                      Some(file.path), None))

snapshot_txt_file(file) ==
    LET instance_name == file_stem(file.path)
        contents == from_utf8(file.contents)
    IN  IF contents.tag = "Err" THEN Err(Utf8Error(file.path))
        ELSE Some(RbxSnapshotInstance(instance_name, "StringValue",
                                      {<<"Value", contents.val>>}, <<>>,
                                      Some(file.path), None))

snapshot_csv_file(file) ==
    LET instance_name == file_stem(file.path)
        table_contents == csv_to_json(file.contents)
    IN  IF table_contents.tag = "None"
        THEN Panic("Malformed localization table found!")
        ELSE Some(RbxSnapshotInstance(instance_name, "LocalizationTable",
                                      {<<"Contents", table_contents.val>>}, <<>>,
                                      Some(file.path), None))

\* The part snapshot_xml_model_file and snapshot_binary_model_file share
snapshot_model_file(file, decode_error) ==
    LET instance_name == file_stem(file.path)
        decoded == model_decode(file.contents)
    IN  IF decoded.tag = "Err" THEN Err(decode_error)
        ELSE IF Len(decoded.val) = 0 THEN None
        ELSE IF Len(decoded.val) = 1
        THEN Some([snapshot_from_tree(decoded.val[1]) EXCEPT !.name = instance_name])
        ELSE Panic("Rojo doesn't have support for model files with multiple roots yet")

snapshot_xml_model_file(file) ==
    snapshot_model_file(file, XmlModelDecodeError(file.path))

snapshot_binary_model_file(file) ==
    snapshot_model_file(file, BinaryModelDecodeError(file.path))

\* The decoder snapshot_imfs_file dispatches to, by extension
decode_by_extension(file) ==
    LET ext == extension(file.path)
    IN  IF ext = Some(Str("lua")) THEN snapshot_lua_file(file)
        ELSE IF ext = Some(Str("csv")) THEN snapshot_csv_file(file)
        ELSE IF ext = Some(Str("txt")) THEN snapshot_txt_file(file)
        ELSE IF ext = Some(Str("rbxmx")) THEN snapshot_xml_model_file(file)
        ELSE IF ext = Some(Str("rbxm")) THEN snapshot_binary_model_file(file)
        ELSE None

\* HashMap::get on the sync point names
names_get(names, path) ==
    IF path \in DOMAIN names THEN Some(names[path]) ELSE None

\* HashMap::insert on the sync point names
names_insert(names, path, name) ==
    [p \in DOMAIN names \cup {path} |-> IF p = path THEN name ELSE names[p]]

\* snapshot_imfs_file without the lookup of the file's path in the names
snapshot_imfs_file_without_lookup(names, file) == decode_by_extension(file)

snapshot_imfs_file(names, file) ==
    LET maybe_snapshot == decode_by_extension(file)
        actual_name == names_get(names, file.path)
    IN  IF maybe_snapshot.tag = "Some" /\ actual_name.tag = "Some"
        THEN Some([maybe_snapshot.val EXCEPT !.name = actual_name.val])
        ELSE maybe_snapshot

\* ------------------------------------------------------------------------
\* The inputs: filesystems, manifests and initial sync point names
\* ------------------------------------------------------------------------

\* The most child paths the varied directory lists
MaxDirChildren == 4

\* The most children the root node of a varied manifest has
MaxManifestChildren == 3

File(path, contents) == [type |-> "File", path |-> path, contents |-> contents]

Directory(path, children) == [type |-> "Directory", path |-> path, children |-> children]

\* An Imfs holding `items`, which may lack items its directories list
ImfsOf(items) ==
    [p \in {i.path : i \in items} |-> CHOOSE i \in items : i.path = p]

SRC == <<Str("src")>>

LIB == <<Str("lib")>>

SRC_INIT == join(SRC, INIT_MODULE_NAME)

SRC_INIT_SERVER == join(SRC, INIT_SERVER_NAME)

SRC_INIT_CLIENT == join(SRC, INIT_CLIENT_NAME)

SRC_FOO == join(SRC, Ext(Str("foo"), "lua"))

\* A path src may list that the Imfs never holds
SRC_GHOST == join(SRC, Ext(Str("ghost"), "lua"))

SRC_SUB == join(SRC, Str("sub"))

SUB_INIT_CLIENT == join(SRC_SUB, INIT_CLIENT_NAME)

SUB_NOTE == join(SRC_SUB, Ext(Str("note"), "txt"))

INIT_DIR_CHILD == join(SRC_INIT, Ext(Str("x"), "lua"))

\* A path no Imfs holds
LIB_GONE == join(LIB, Ext(Str("gone"), "lua"))

LIB_PIC == join(LIB, Ext(Str("pic"), "png"))

\* Files outside the varied directory, one per decoder outcome ("absent"
\* marks the one the Imfs is built without)
LibFiles ==
    { File(join(LIB, Ext(Str("foo"), "lua")), "text:lib-foo"),
      File(join(LIB, Ext(Ext(Str("foo"), "server"), "lua")), "text:lib-server"),
      File(join(LIB, Ext(Ext(Str("foo"), "client"), "lua")), "text:lib-client"),
      File(join(LIB, Ext(Str("server"), "lua")), "text:lib-plain"),
      File(join(LIB, Ext(Ext(Ext(Str("a"), "b"), "client"), "lua")), "text:lib-ab"),
      File(join(LIB, Ext(Str("bad"), "lua")), "bytes:ff"),
      File(join(LIB, <<DOT, "lua">>), "text:dotfile"),
      File(join(LIB, Ext(Str("pic"), "png")), "bytes:png"),
      File(join(LIB, Ext(Str("gone"), "lua")), "absent"),
      File(join(LIB, Str("README")), "text:readme"),
      File(join(LIB, Ext(Str("note"), "txt")), "text:note"),
      File(join(LIB, Ext(Str("bad"), "txt")), "bytes:ff"),
      File(join(LIB, Ext(Str("greet"), "csv")), "csv:greet"),
      File(join(LIB, Ext(Str("rows"), "csv")), "csv:malformed"),
      File(join(LIB, Ext(Str("one"), "rbxmx")), "model:1"),
      File(join(LIB, Ext(Str("zero"), "rbxmx")), "model:0"),
      File(join(LIB, Ext(Str("two"), "rbxmx")), "model:2"),
      File(join(LIB, Ext(Str("junk"), "rbxmx")), "bytes:junk"),
      File(join(LIB, Ext(Str("one"), "rbxm")), "model:1"),
      File(join(LIB, Ext(Str("junk"), "rbxm")), "bytes:junk") }

\* The child paths the varied directory src may list, in listing order
SrcCandidates ==
    <<SRC_INIT, SRC_INIT_SERVER, SRC_INIT_CLIENT, SRC_FOO, SRC_GHOST, SRC_SUB>>

\* What src/init.lua is: a text file, a file of invalid UTF-8, a directory,
\* or a path the directory lists and the Imfs does not hold
InitVariants == {"text", "invalid", "directory", "absent"}

RECURSIVE Listing(_, _)
\* The candidates numbered in `chosen`, from position i on, in listing order
Listing(chosen, i) ==
    IF i > Len(SrcCandidates) THEN <<>>
    ELSE IF i \in chosen THEN <<SrcCandidates[i]>> \o Listing(chosen, i + 1)
    ELSE Listing(chosen, i + 1)

SrcItems(chosen, variant) ==
    {Directory(SRC, Listing(chosen, 1))}
    \cup (IF 1 \in chosen /\ variant = "text" THEN {File(SRC_INIT, "text:init")} ELSE {})
    \cup (IF 1 \in chosen /\ variant = "invalid" THEN {File(SRC_INIT, "bytes:ff")} ELSE {})
    \cup (IF 1 \in chosen /\ variant = "directory"
          THEN {Directory(SRC_INIT, <<INIT_DIR_CHILD>>), File(INIT_DIR_CHILD, "text:x")}
          ELSE {})
    \cup (IF 2 \in chosen THEN {File(SRC_INIT_SERVER, "text:init-server")} ELSE {})
    \cup (IF 3 \in chosen THEN {File(SRC_INIT_CLIENT, "text:init-client")} ELSE {})
    \cup (IF 4 \in chosen THEN {File(SRC_FOO, "text:foo")} ELSE {})
    \cup (IF 6 \in chosen
          THEN {Directory(SRC_SUB, <<SUB_INIT_CLIENT, SUB_NOTE>>),
                File(SUB_INIT_CLIENT, "text:sub-init"), File(SUB_NOTE, "text:sub-note")}
          ELSE {})

\* A file no decoder takes
LibPic == File(LIB_PIC, "bytes:png")

Filesystem(chosen, variant) == ImfsOf({LibPic} \cup SrcItems(chosen, variant))

\* Every filesystem whose src lists at most MaxDirChildren candidates
Filesystems ==
    { Filesystem(chosen, variant) :
        <<chosen, variant>> \in
            { cv \in (SUBSET (1..Len(SrcCandidates))) \X InitVariants :
                /\ Cardinality(cv[1]) <= MaxDirChildren
                /\ (1 \notin cv[1] => cv[2] = "text") } }

\* Manifest nodes
SyncPoint(path) == [type |-> "SyncPoint", path |-> path]

InstanceNode(class_name, properties, children, metadata) ==
    [type |-> "Instance", class_name |-> class_name, properties |-> properties,
     children |-> children, metadata |-> metadata]

Child(name, node) == [name |-> name, node |-> node]

LeafNode == InstanceNode("Part", {<<"Anchored", "true">>}, <<>>, "meta:leaf")

PureNode ==
    InstanceNode("Model", {},
                 <<Child(Str("Second"), LeafNode),
                   Child(Str("First"), InstanceNode("Folder", {}, <<>>, "meta:first"))>>,
                 "meta:pure")

MixedNode ==
    InstanceNode("Workspace", {<<"Gravity", "196">>},
                 <<Child(Str("Leaf"), LeafNode), Child(Str("Foo"), SyncPoint(SRC_FOO))>>,
                 "meta:mixed")

\* The nodes the root of a varied manifest draws its children from
NodeUniverse ==
    { SyncPoint(SRC), SyncPoint(SRC_FOO), SyncPoint(SRC_SUB), SyncPoint(LIB_PIC),
      SyncPoint(LIB_GONE), PureNode, MixedNode }

ChildNames == <<Str("A"), Str("B"), Str("C"), Str("D")>>

RootNode(nodes) ==
    InstanceNode("DataModel", {}, [i \in 1..Len(nodes) |-> Child(ChildNames[i], nodes[i])],
                 "meta:root")

Project(nodes) == [name |-> Str("game"), tree |-> RootNode(nodes)]

\* A top-level call: its function, its argument and the sync point names its
\* metadata argument holds when it is made
ProjectTreeCall(project, names) ==
    [fn |-> "snapshot_project_tree", project |-> project, names |-> names]

ImfsPathCall(path, names) ==
    [fn |-> "snapshot_imfs_path", path |-> path, names |-> names]

NoNames == [p \in {} |-> <<>>]

OneName(path, name) == [p \in {path} |-> name]

\* ------------------------------------------------------------------------
\* State
\* ------------------------------------------------------------------------

VARIABLES
    imfs,             \* the Imfs: path -> ImfsItem (read only)
    call,             \* the top-level call made: its function and arguments
    sync_point_names, \* SnapshotMetadata.sync_point_names: path -> name
    stack,            \* the active calls, innermost last
    ret,              \* the value the last finished callee returned, or NoRet
    result,           \* the top-level call's outcome, once pc = "done"
    pc,               \* "start", "run" or "done"
    returned,         \* history: the frame that produced ret
    events            \* history: calls, returns and inserts, in order

vars == <<imfs, call, sync_point_names, stack, ret, result, pc, returned, events>>

Top == stack[Len(stack)]

Pop == SubSeq(stack, 1, Len(stack) - 1)

ReplaceTop(frame) == [stack EXCEPT ![Len(stack)] = frame]

IsResult(r) == r.tag \in {"Some", "None", "Err"}

\* What a history event keeps of a returned value
Summary(r) ==
    IF r.tag = "Some" THEN [tag |-> "Some", name |-> r.val.name] ELSE r

CallEvent(fn, path) == [ev |-> "call", fn |-> fn, path |-> path, res |-> NoRet]

RetEvent(fn, path, r) == [ev |-> "ret", fn |-> fn, path |-> path, res |-> Summary(r)]

InsertEvent(path, name) ==
    [ev |-> "insert", fn |-> "sync_point_names.insert", path |-> path,
     res |-> [tag |-> "Some", name |-> name]]

\* ------------------------------------------------------------------------
\* Frames
\* ------------------------------------------------------------------------

InstanceFrame(node, instance_name, names) ==
    [fn |-> "snapshot_instance_node", node |-> node, instance_name |-> instance_name,
     next |-> 1, children |-> <<>>, names_at_entry |-> names]

SyncPointFrame(node, instance_name) ==
    [fn |-> "snapshot_sync_point_node", node |-> node, instance_name |-> instance_name,
     pc |-> "call"]

FolderSnapshot(directory) ==
    RbxSnapshotInstance(<<>>, "Folder", {}, <<>>, Some(directory.path), None)

DirectoryFrame(directory) ==
    [fn |-> "snapshot_imfs_directory", directory |-> directory, pc |-> "init",
     snapshot |-> FolderSnapshot(directory), next |-> 1,
     adopted |-> None, looped |-> <<>>, appended |-> <<>>]

\* snapshot_project_node: the frame of the function the node's variant selects
project_node_frame(node, instance_name, names) ==
    IF node.type = "Instance"
    THEN InstanceFrame(node, instance_name, names)
    ELSE SyncPointFrame(node, instance_name)

\* The history event of the call snapshot_project_node makes
NodeCallEvent(node) ==
    IF node.type = "Instance"
    THEN CallEvent("snapshot_instance_node", <<>>)
    ELSE CallEvent("snapshot_sync_point_node", node.path)

Range(seq) == {seq[i] : i \in 1..Len(seq)}

\* snapshot_imfs_path and snapshot_imfs_item, called with `stk` as the call
\* stack: an absent path and a file return at once, a directory becomes a
\* new frame.
call_imfs_path(stk, names, path) ==
    IF path \notin DOMAIN imfs
    THEN [stack |-> stk, ret |-> Err(DidNotExist(path)),
          events |-> <<CallEvent("snapshot_imfs_path", path),
                       RetEvent("snapshot_imfs_path", path, Err(DidNotExist(path)))>>]
    ELSE IF imfs[path].type = "File"
    THEN LET r == snapshot_imfs_file(names, imfs[path])
         IN  [stack |-> stk, ret |-> r,
              events |-> <<CallEvent("snapshot_imfs_path", path),
                           CallEvent("snapshot_imfs_file", path),
                           RetEvent("snapshot_imfs_file", path, r),
                           RetEvent("snapshot_imfs_path", path, r)>>]
    ELSE [stack |-> Append(stk, DirectoryFrame(imfs[path])), ret |-> NoRet,
          events |-> <<CallEvent("snapshot_imfs_path", path),
                       CallEvent("snapshot_imfs_directory", path)>>]

\* ------------------------------------------------------------------------
\* The decisions of the three recursive functions
\* ------------------------------------------------------------------------

\* A caller that drops a callee's Err as it drops "no instance"
propagates_nothing(r) == r.tag \in {}

\* The `?` operator: an Err returned by a callee is returned at once
propagates(r) == r.tag = "Err"

\* snapshot_instance_node returning the node without its projected children
instance_node_result_without_children(node, instance_name, children) ==
    Some(RbxSnapshotInstance(instance_name, node.class_name, node.properties,
                             <<>>, None, Some(node.metadata)))

\* snapshot_instance_node's value once every child is projected
instance_node_result(node, instance_name, children) ==
    Some(RbxSnapshotInstance(instance_name, node.class_name, node.properties,
                             children, None, Some(node.metadata)))

\* snapshot_sync_point_node making its insert before it looks at what
\* snapshot_imfs_path returned
sync_point_result_insert_first(names, node, instance_name, r) ==
    IF r.tag = "Some"
    THEN [ret |-> Some([r.val EXCEPT !.name = instance_name]),
          names |-> names_insert(names, node.path, instance_name),
          events |-> <<InsertEvent(node.path, instance_name)>>]
    ELSE [ret |-> None,
          names |-> names_insert(names, node.path, instance_name),
          events |-> <<InsertEvent(node.path, instance_name)>>]

\* snapshot_sync_point_node after snapshot_imfs_path returned r without error:
\* the value returned and the sync point names left behind
sync_point_result(names, node, instance_name, r) ==
    IF r.tag = "Some"
    THEN [ret |-> Some([r.val EXCEPT !.name = instance_name]),
          names |-> names_insert(names, node.path, instance_name),
          events |-> <<InsertEvent(node.path, instance_name)>>]
    ELSE [ret |-> None, names |-> names, events |-> <<>>]

\* adopted_init with init.server.lua tried before init.lua
adopted_init_server_first(directory) ==
    LET init_path == join(directory.path, INIT_MODULE_NAME)
        init_server_path == join(directory.path, INIT_SERVER_NAME)
        init_client_path == join(directory.path, INIT_CLIENT_NAME)
    IN  IF init_server_path \in Range(directory.children) THEN Some(init_server_path)
        ELSE IF init_path \in Range(directory.children) THEN Some(init_path)
        ELSE IF init_client_path \in Range(directory.children) THEN Some(init_client_path)
        ELSE None

\* The init file snapshot_imfs_directory adopts, if any
adopted_init(directory) ==
    LET init_path == join(directory.path, INIT_MODULE_NAME)
        init_server_path == join(directory.path, INIT_SERVER_NAME)
        init_client_path == join(directory.path, INIT_CLIENT_NAME)
    IN  IF init_path \in Range(directory.children) THEN Some(init_path)
        ELSE IF init_server_path \in Range(directory.children) THEN Some(init_server_path)
        ELSE IF init_client_path \in Range(directory.children) THEN Some(init_client_path)
        ELSE None

\* directory_name that names only the Folder it made itself and keeps the name
\* of an adopted init file's snapshot
directory_name_keeps_adopted(names, directory, snapshot) ==
    IF snapshot.name # <<>> THEN snapshot.name
    ELSE LET actual_name == names_get(names, directory.path)
         IN  IF actual_name.tag = "Some" THEN actual_name.val
             ELSE file_name(directory.path)

\* The name snapshot_imfs_directory gives its snapshot
directory_name(names, directory, snapshot) ==
    LET actual_name == names_get(names, directory.path)
    IN  IF actual_name.tag = "Some" THEN actual_name.val
        ELSE file_name(directory.path)

\* is_init_name that knows init.lua only
is_init_name_module_only(child_name) == child_name = INIT_MODULE_NAME

\* is_init_name of a loop that skips nothing
is_init_name_never(child_name) == child_name \in {}

\* The child names the loop of snapshot_imfs_directory skips
is_init_name(child_name) ==
    child_name \in {INIT_MODULE_NAME, INIT_SERVER_NAME, INIT_CLIENT_NAME}

\* ------------------------------------------------------------------------
\* Actions
\* ------------------------------------------------------------------------

NoFrame == [fn |-> "none"]

\* snapshot_project_tree: projects project.tree under the name project.name
snapshot_project_tree ==
    /\ pc = "start"
    /\ call.fn = "snapshot_project_tree"
    /\ pc' = "run"
    /\ stack' = <<project_node_frame(call.project.tree, call.project.name,
                                     sync_point_names)>>
    /\ events' = Append(events, NodeCallEvent(call.project.tree))
    /\ UNCHANGED <<imfs, call, sync_point_names, ret, result, returned>>

\* snapshot_imfs_path as the top-level call
snapshot_imfs_path ==
    /\ pc = "start"
    /\ call.fn = "snapshot_imfs_path"
    /\ LET c == call_imfs_path(<<>>, sync_point_names, call.path)
       IN  /\ stack' = c.stack
           /\ ret' = c.ret
           /\ events' = events \o c.events
    /\ pc' = "run"
    /\ UNCHANGED <<imfs, call, sync_point_names, result, returned>>

\* snapshot_instance_node: the loop calls snapshot_project_node on the next child
InstanceNodeNextChild ==
    /\ pc = "run" /\ stack # <<>> /\ ret = NoRet
    /\ Top.fn = "snapshot_instance_node"
    /\ Top.next <= Len(Top.node.children)
    /\ LET child == Top.node.children[Top.next]
       IN  /\ stack' = Append(stack, project_node_frame(child.node, child.name,
                                                         sync_point_names))
           /\ events' = Append(events, NodeCallEvent(child.node))
    /\ UNCHANGED <<imfs, call, sync_point_names, ret, result, pc, returned>>

\* snapshot_instance_node: the call on a child returned
InstanceNodeChildReturned ==
    /\ pc = "run" /\ stack # <<>> /\ IsResult(ret)
    /\ Top.fn = "snapshot_instance_node"
    /\ IF propagates(ret)
       THEN /\ stack' = Pop
            /\ returned' = Top
            /\ ret' = ret
            /\ events' = Append(events, RetEvent("snapshot_instance_node", <<>>, ret))
       ELSE /\ stack' = ReplaceTop(
                  [Top EXCEPT !.next = @ + 1,
                              !.children = IF ret.tag = "Some"
                                           THEN Append(@, ret.val) ELSE @])
            /\ ret' = NoRet
            /\ returned' = NoFrame
            /\ events' = events
    /\ UNCHANGED <<imfs, call, sync_point_names, result, pc>>

\* snapshot_instance_node: every child is projected; the instance is returned
InstanceNodeReturn ==
    /\ pc = "run" /\ stack # <<>> /\ ret = NoRet
    /\ Top.fn = "snapshot_instance_node"
    /\ Top.next > Len(Top.node.children)
    /\ stack' = Pop
    /\ returned' = Top
    /\ ret' = instance_node_result(Top.node, Top.instance_name, Top.children)
    /\ events' = Append(events, RetEvent("snapshot_instance_node", <<>>, ret'))
    /\ UNCHANGED <<imfs, call, sync_point_names, result, pc>>

\* snapshot_sync_point_node: calls snapshot_imfs_path on the node's path
SyncPointCall ==
    /\ pc = "run" /\ stack # <<>> /\ ret = NoRet
    /\ Top.fn = "snapshot_sync_point_node"
    /\ Top.pc = "call"
    /\ LET c == call_imfs_path(ReplaceTop([Top EXCEPT !.pc = "wait"]),
                               sync_point_names, Top.node.path)
       IN  /\ stack' = c.stack
           /\ ret' = c.ret
           /\ events' = events \o c.events
    /\ UNCHANGED <<imfs, call, sync_point_names, result, pc, returned>>

\* snapshot_sync_point_node: snapshot_imfs_path returned
SyncPointReturn ==
    /\ pc = "run" /\ stack # <<>> /\ IsResult(ret)
    /\ Top.fn = "snapshot_sync_point_node"
    /\ Top.pc = "wait"
    /\ stack' = Pop
    /\ returned' = Top
    /\ IF propagates(ret)
       THEN /\ ret' = ret
            /\ sync_point_names' = sync_point_names
            /\ events' = Append(events, RetEvent("snapshot_sync_point_node",
                                                 Top.node.path, ret))
       ELSE LET s == sync_point_result(sync_point_names, Top.node,
                                       Top.instance_name, ret)
            IN  /\ ret' = s.ret
                /\ sync_point_names' = s.names
                /\ events' = (events \o s.events)
                             \o <<RetEvent("snapshot_sync_point_node",
                                           Top.node.path, s.ret)>>
    /\ UNCHANGED <<imfs, call, result, pc>>

\* snapshot_imfs_directory: adopts an init file, calling snapshot_imfs_path on
\* it, or starts from an empty Folder
DirectoryInit ==
    /\ pc = "run" /\ stack # <<>> /\ ret = NoRet
    /\ Top.fn = "snapshot_imfs_directory"
    /\ Top.pc = "init"
    /\ LET init == adopted_init(Top.directory)
       IN  IF init.tag = "Some"
           THEN LET c == call_imfs_path(
                             ReplaceTop([Top EXCEPT !.pc = "init_wait",
                                                    !.adopted = init]),
                             sync_point_names, init.val)
                IN  /\ stack' = c.stack
                    /\ ret' = c.ret
                    /\ events' = events \o c.events
           ELSE /\ stack' = ReplaceTop([Top EXCEPT !.pc = "name"])
                /\ ret' = ret
                /\ events' = events
    /\ UNCHANGED <<imfs, call, sync_point_names, result, pc, returned>>

\* snapshot_imfs_directory: the call on the init file returned; `?`, then unwrap
DirectoryInitReturned ==
    /\ pc = "run" /\ stack # <<>> /\ IsResult(ret)
    /\ Top.fn = "snapshot_imfs_directory"
    /\ Top.pc = "init_wait"
    /\ IF propagates(ret)
       THEN /\ stack' = Pop
            /\ returned' = Top
            /\ ret' = ret
            /\ events' = (events \o <<RetEvent("snapshot_imfs_directory",
                                               Top.directory.path, ret)>>)
                         \o <<RetEvent("snapshot_imfs_path", Top.directory.path, ret)>>
       ELSE IF ret.tag = "Some"
       THEN /\ stack' = ReplaceTop([Top EXCEPT !.pc = "name", !.snapshot = ret.val])
            /\ returned' = NoFrame
            /\ ret' = NoRet
            /\ events' = events
       ELSE /\ stack' = stack
            /\ returned' = NoFrame
            /\ ret' = Panic("called Option::unwrap() on a None value")
            /\ events' = events
    /\ UNCHANGED <<imfs, call, sync_point_names, result, pc>>

\* snapshot_imfs_directory: the snapshot is named
DirectoryName ==
    /\ pc = "run" /\ stack # <<>> /\ ret = NoRet
    /\ Top.fn = "snapshot_imfs_directory"
    /\ Top.pc = "name"
    /\ stack' = ReplaceTop(
           [Top EXCEPT !.pc = "loop",
                       !.snapshot.name = directory_name(sync_point_names,
                                                        Top.directory, Top.snapshot)])
    /\ UNCHANGED <<imfs, call, sync_point_names, ret, result, pc, returned, events>>

\* snapshot_imfs_directory: the loop skips an init name, or calls
\* snapshot_imfs_path on the next child path
DirectoryNextChild ==
    /\ pc = "run" /\ stack # <<>> /\ ret = NoRet
    /\ Top.fn = "snapshot_imfs_directory"
    /\ Top.pc = "loop"
    /\ Top.next <= Len(Top.directory.children)
    /\ LET child_path == Top.directory.children[Top.next]
           child_name == file_name(child_path)
       IN  IF is_init_name(child_name)
           THEN /\ stack' = ReplaceTop([Top EXCEPT !.next = @ + 1])
                /\ ret' = ret
                /\ events' = events
           ELSE LET c == call_imfs_path(
                             ReplaceTop([Top EXCEPT !.pc = "loop_wait",
                                                    !.looped = Append(@, child_path)]),
                             sync_point_names, child_path)
                IN  /\ stack' = c.stack
                    /\ ret' = c.ret
                    /\ events' = events \o c.events
    /\ UNCHANGED <<imfs, call, sync_point_names, result, pc, returned>>

\* snapshot_imfs_directory: the call on a child path returned
DirectoryChildReturned ==
    /\ pc = "run" /\ stack # <<>> /\ IsResult(ret)
    /\ Top.fn = "snapshot_imfs_directory"
    /\ Top.pc = "loop_wait"
    /\ IF propagates(ret)
       THEN /\ stack' = Pop
            /\ returned' = Top
            /\ ret' = ret
            /\ events' = (events \o <<RetEvent("snapshot_imfs_directory",
                                               Top.directory.path, ret)>>)
                         \o <<RetEvent("snapshot_imfs_path", Top.directory.path, ret)>>
       ELSE /\ stack' = ReplaceTop(
                  [Top EXCEPT !.pc = "loop",
                              !.next = @ + 1,
                              !.snapshot.children = IF ret.tag = "Some"
                                                    THEN Append(@, ret.val) ELSE @,
                              !.appended = IF ret.tag = "Some"
                                           THEN Append(@, Top.directory.children[Top.next])
                                           ELSE @])
            /\ returned' = NoFrame
            /\ ret' = NoRet
            /\ events' = events
    /\ UNCHANGED <<imfs, call, sync_point_names, result, pc>>

\* snapshot_imfs_directory: every child path is visited; the snapshot is returned
DirectoryReturn ==
    /\ pc = "run" /\ stack # <<>> /\ ret = NoRet
    /\ Top.fn = "snapshot_imfs_directory"
    /\ Top.pc = "loop"
    /\ Top.next > Len(Top.directory.children)
    /\ stack' = Pop
    /\ returned' = Top
    /\ ret' = Some(Top.snapshot)
    /\ events' = (events \o <<RetEvent("snapshot_imfs_directory",
                                       Top.directory.path, Some(Top.snapshot))>>)
                 \o <<RetEvent("snapshot_imfs_path", Top.directory.path,
                               Some(Top.snapshot))>>
    /\ UNCHANGED <<imfs, call, sync_point_names, result, pc>>

\* A panic unwinds every frame: the top-level call returns nothing
Abort ==
    /\ pc = "run" /\ ret.tag = "Panic"
    /\ pc' = "done"
    /\ stack' = <<>>
    /\ result' = ret
    /\ UNCHANGED <<imfs, call, sync_point_names, ret, returned, events>>

\* The top-level call returns
Finish ==
    /\ pc = "run" /\ stack = <<>> /\ IsResult(ret)
    /\ pc' = "done"
    /\ result' = ret
    /\ UNCHANGED <<imfs, call, sync_point_names, stack, ret, returned, events>>

Next ==
    \/ snapshot_project_tree
    \/ snapshot_imfs_path
    \/ InstanceNodeNextChild
    \/ InstanceNodeChildReturned
    \/ InstanceNodeReturn
    \/ SyncPointCall
    \/ SyncPointReturn
    \/ DirectoryInit
    \/ DirectoryInitReturned
    \/ DirectoryName
    \/ DirectoryNextChild
    \/ DirectoryChildReturned
    \/ DirectoryReturn
    \/ Abort
    \/ Finish

\* ------------------------------------------------------------------------
\* Initial states and the specification
\* ------------------------------------------------------------------------

\* The varied directory under a few manifests and as the top-level path
InitDirectories ==
    /\ imfs \in Filesystems
    /\ sync_point_names \in { NoNames, OneName(SRC, Str("Pre")),
                              OneName(SRC_INIT, Str("PreInit")) }
    /\ call \in { ProjectTreeCall(Project(<<SyncPoint(SRC)>>), sync_point_names),
                  ProjectTreeCall(Project(<<SyncPoint(SRC_INIT), SyncPoint(SRC)>>),
                                  sync_point_names),
                  ProjectTreeCall([name |-> Str("game"), tree |-> PureNode],
                                  sync_point_names),
                  ImfsPathCall(SRC, sync_point_names) }

\* The varied manifest over one filesystem
InitManifests ==
    /\ imfs = Filesystem({2, 4, 6}, "text")
    /\ sync_point_names \in { NoNames, OneName(SRC_FOO, Str("Pre")) }
    /\ \E n \in 1..MaxManifestChildren :
          call \in { ProjectTreeCall(Project(nodes), sync_point_names) :
                       nodes \in [1..n -> NodeUniverse] }

\* Every file of lib as a sync point and as the top-level path
InitFiles ==
    /\ \E f \in LibFiles :
          /\ imfs = ImfsOf({g \in {f} : g.contents # "absent"})
          /\ sync_point_names \in { NoNames, OneName(f.path, Str("Pre")) }
          /\ call \in { ProjectTreeCall(Project(<<SyncPoint(f.path)>>), sync_point_names),
                        ProjectTreeCall([name |-> Str("game"), tree |-> SyncPoint(f.path)],
                                        sync_point_names),
                        ImfsPathCall(f.path, sync_point_names) }

Init ==
    /\ \/ InitDirectories
       \/ InitManifests
       \/ InitFiles
    /\ stack = <<>>
    /\ ret = NoRet
    /\ result = NoRet
    /\ pc = "start"
    /\ returned = NoFrame
    /\ events = <<>>

Spec == Init /\ [][Next]_vars

\* ------------------------------------------------------------------------
\* Properties
\* ------------------------------------------------------------------------

\* The frames whose work is over or under way
Frames == Range(stack) \cup {returned}

RECURSIVE IsInstanceOnly(_)
\* A manifest subtree made only of instance nodes
IsInstanceOnly(node) ==
    /\ node.type = "Instance"
    /\ \A i \in 1..Len(node.children) : IsInstanceOnly(node.children[i].node)

RECURSIVE Reproduces(_, _, _)
\* The instance carries the given name and the node's class name and property
\* bag, and its children reproduce the node's children, in manifest order
Reproduces(instance, node, name) ==
    /\ instance.name = name
    /\ instance.class_name = node.class_name
    /\ instance.properties = node.properties
    /\ Len(instance.children) = Len(node.children)
    /\ \A i \in 1..Len(node.children) :
          Reproduces(instance.children[i], node.children[i].node, node.children[i].name)

\* C3: snapshot_instance_node on a subtree made only of instance nodes returns
\* an instance (not "no instance", not an error) that carries the instance_name
\* argument and the node's class name and property bag, whose children are the
\* projections of the node's children in manifest order; the sync point names
\* are as they were when the call was made.
C3_InstanceSubtreeReproduced ==
    (returned.fn = "snapshot_instance_node" /\ IsInstanceOnly(returned.node)) =>
        /\ ret.tag = "Some"
        /\ Reproduces(ret.val, returned.node, returned.instance_name)
        /\ sync_point_names = returned.names_at_entry

C3_Witness ==
    /\ returned.fn = "snapshot_instance_node"
    /\ IsInstanceOnly(returned.node)
    /\ Len(returned.node.children) = 2
    /\ ret.tag = "Some"
    /\ Len(ret.val.children) = 2
    /\ sync_point_names # NoNames
    /\ SRC \in DOMAIN imfs

\* C4: snapshot_lua_file names and classifies a script by its file name:
\* "foo.server.lua" is "foo", a Script; "foo.client.lua" is "foo", a
\* LocalScript; any other "foo.lua" is "foo", a ModuleScript.  Stated of the
\* top-level call snapshot_imfs_path on a script file no sync point names.
C4_ScriptClassification ==
    ( /\ pc = "done"
      /\ call.fn = "snapshot_imfs_path"
      /\ call.path \in DOMAIN imfs
      /\ call.path \notin DOMAIN sync_point_names
      /\ imfs[call.path].type = "File"
      /\ extension(call.path) = Some(Str("lua"))
      /\ result.tag = "Some" ) =>
        LET fname == file_name(call.path)
        IN  \A k \in 0..Len(fname) :
              LET foo == SubSeq(fname, 1, k)
              IN  /\ fname = foo \o SERVER_TRAILER =>
                        result.val.name = foo /\ result.val.class_name = "Script"
                  /\ fname = foo \o CLIENT_TRAILER =>
                        result.val.name = foo /\ result.val.class_name = "LocalScript"
                  /\ ( /\ fname = Ext(foo, "lua")
                       /\ ~ ends_with(fname, SERVER_TRAILER)
                       /\ ~ ends_with(fname, CLIENT_TRAILER) ) =>
                        result.val.name = foo /\ result.val.class_name = "ModuleScript"

\* The three init file names
InitNames == {INIT_MODULE_NAME, INIT_SERVER_NAME, INIT_CLIENT_NAME}

\* The init paths a directory lists besides the one its frame adopted
OtherInits(frame) ==
    { c \in Range(frame.directory.children) :
        file_name(c) \in InitNames /\ Some(c) # frame.adopted }

\* A finished call of snapshot_imfs_directory that returned an instance
DirectoryReturned ==
    /\ returned.fn = "snapshot_imfs_directory"
    /\ ret.tag = "Some"

\* C5 as claimed: the init files a directory lists besides the adopted one are
\* projected and appended as ordinary children of the directory's instance.
C5_OtherInitsAreChildren ==
    (DirectoryReturned /\ returned.adopted.tag = "Some") =>
        \A c \in OtherInits(returned) :
            (c \in DOMAIN imfs /\ imfs[c].type = "File") =>
                /\ c \in Range(returned.appended)
                /\ \E i \in 1..Len(ret.val.children) :
                      ret.val.children[i].source_path = Some(c)

\* C5 as amended: the first init file present, in the order init.lua,
\* init.server.lua, init.client.lua, is adopted; the other init files the
\* directory lists are skipped: the loop calls snapshot_imfs_path on none of
\* them and none is among the children of the directory's instance.
C5_OtherInitsAreSkipped ==
    \A f \in Frames :
        (f.fn = "snapshot_imfs_directory" /\ f.pc # "init") =>
            /\ f.adopted =
                  ( IF join(f.directory.path, INIT_MODULE_NAME)
                          \in Range(f.directory.children)
                    THEN Some(join(f.directory.path, INIT_MODULE_NAME))
                    ELSE IF join(f.directory.path, INIT_SERVER_NAME)
                          \in Range(f.directory.children)
                    THEN Some(join(f.directory.path, INIT_SERVER_NAME))
                    ELSE IF join(f.directory.path, INIT_CLIENT_NAME)
                          \in Range(f.directory.children)
                    THEN Some(join(f.directory.path, INIT_CLIENT_NAME))
                    ELSE None )
            /\ \A c \in OtherInits(f) :
                  /\ c \notin Range(f.looped)
                  /\ \A i \in 1..Len(f.snapshot.children) :
                        f.snapshot.children[i].source_path # Some(c)

C5_Witness ==
    /\ DirectoryReturned
    /\ returned.adopted = Some(SRC_INIT)
    /\ SRC_INIT \in DOMAIN imfs
    /\ imfs[SRC_INIT].type = "File"
    /\ OtherInits(returned) = {SRC_INIT_SERVER, SRC_INIT_CLIENT}
    /\ Len(returned.appended) = 1

\* C6: a directory that lists all three init files returns the class name and
\* property bag decoded from init.lua (ModuleScript, Source = its text); one
\* that lists only init.server.lua and init.client.lua returns those decoded
\* from init.server.lua.
C6_ModuleInitWins ==
    DirectoryReturned =>
        LET d == returned.directory
            module == join(d.path, INIT_MODULE_NAME)
            server == join(d.path, INIT_SERVER_NAME)
            client == join(d.path, INIT_CLIENT_NAME)
        IN  /\ ( /\ {module, server, client} \subseteq Range(d.children)
                 /\ module \in DOMAIN imfs
                 /\ imfs[module].type = "File" ) =>
                    /\ ret.val.class_name = "ModuleScript"
                    /\ ret.val.properties = {<<"Source", imfs[module].contents>>}
            /\ ( /\ {server, client} \subseteq Range(d.children)
                 /\ module \notin Range(d.children)
                 /\ server \in DOMAIN imfs
                 /\ imfs[server].type = "File" ) =>
                    /\ ret.val.class_name = "Script"
                    /\ ret.val.properties = {<<"Source", imfs[server].contents>>}

C6_Witness ==
    /\ DirectoryReturned
    /\ {SRC_INIT, SRC_INIT_SERVER, SRC_INIT_CLIENT} \subseteq Range(returned.directory.children)
    /\ SRC_INIT \in DOMAIN imfs
    /\ imfs[SRC_INIT].type = "File"
    /\ ret.val.class_name = "ModuleScript"

\* C7: the instance a directory projection returns is named by the sync point
\* names' entry for the directory's own path if there is one, else by the last
\* component of that path, also when an init file was adopted.
C7_DirectoryNameWins ==
    DirectoryReturned =>
        ret.val.name =
            IF returned.directory.path \in DOMAIN sync_point_names
            THEN sync_point_names[returned.directory.path]
            ELSE returned.directory.path[Len(returned.directory.path)]

\* An override is registered for the adopted init file's path and none for the
\* directory's: the instance is named after the directory all the same
C7_Witness ==
    /\ DirectoryReturned
    /\ returned.adopted = Some(SRC_INIT)
    /\ SRC_INIT \in DOMAIN imfs
    /\ imfs[SRC_INIT].type = "File"
    /\ SRC_INIT \in DOMAIN sync_point_names
    /\ SRC \notin DOMAIN sync_point_names
    /\ ret.val.name = Str("src")

\* C8: the children the loop of snapshot_imfs_directory appends (the last
\* Len(appended) children of its snapshot) never include the projection of the
\* init file the directory adopted.
C8_AdoptedInitNotAChild ==
    \A f \in Frames :
        (f.fn = "snapshot_imfs_directory" /\ f.adopted.tag = "Some") =>
            LET n == Len(f.snapshot.children)
                k == Len(f.appended)
            IN  /\ k <= n
                /\ f.adopted.val \notin Range(f.looped)
                /\ \A i \in (n - k + 1)..n :
                      f.snapshot.children[i].source_path # f.adopted

C8_Witness ==
    /\ DirectoryReturned
    /\ returned.adopted = Some(SRC_INIT_SERVER)
    /\ Len(returned.appended) = 2
    /\ Len(ret.val.children) = 2

\* C10: the unwrap of the adopted init file's projection never meets "no
\* instance": the call on a listed init path returns an error or an instance,
\* a listed init path that is a file goes to the script decoder, and no
\* projection aborts at that unwrap.
C10_InitUnwrapNeverNone ==
    /\ ret # Panic("called Option::unwrap() on a None value")
    /\ result # Panic("called Option::unwrap() on a None value")
    /\ \A f \in Range(stack) :
          (f.fn = "snapshot_imfs_directory" /\ f.pc = "init_wait") =>
              /\ file_name(f.adopted.val) \in InitNames
              /\ (f = Top /\ ret # NoRet) => ret.tag \in {"Some", "Err"}
              /\ ( /\ f.adopted.val \in DOMAIN imfs
                   /\ imfs[f.adopted.val].type = "File" ) =>
                     extension(f.adopted.val) = Some(Str("lua"))

\* The adopted init path is itself a directory, and its projection an instance
C10_Witness ==
    /\ stack # <<>>
    /\ Top.fn = "snapshot_imfs_directory"
    /\ Top.pc = "init_wait"
    /\ Top.adopted = Some(SRC_INIT)
    /\ SRC_INIT \in DOMAIN imfs
    /\ imfs[SRC_INIT].type = "Directory"
    /\ ret.tag = "Some"

\* A finished projection of a path, as a file or as a directory, that
\* returned an instance
IsProjection(e) ==
    /\ e.ev = "ret"
    /\ e.fn \in {"snapshot_imfs_file", "snapshot_imfs_directory"}
    /\ e.res.tag = "Some"

IsInsert(e) == e.ev = "insert"

IsSyncPointRet(e) == e.ev = "ret" /\ e.fn = "snapshot_sync_point_node"

Last(S) == CHOOSE i \in S : \A j \in S : j <= i

First(S) == CHOOSE i \in S : \A j \in S : i <= j

\* The inserts for `path` among the first n events
InsertsBefore(path, n) ==
    { i \in 1..n : IsInsert(events[i]) /\ events[i].path = path }

\* The name the filesystem alone gives the projection of a path
FilesystemName(path) ==
    IF imfs[path].type = "Directory"
    THEN path[Len(path)]
    ELSE decode_by_extension(imfs[path]).val.name

\* The name in force for `path` after the first n events: that of the last
\* sync point resolved for it, else the entry the call was given, else the
\* filesystem's
NameInForce(path, n) ==
    IF InsertsBefore(path, n) # {}
    THEN events[Last(InsertsBefore(path, n))].res.name
    ELSE IF path \in DOMAIN call.names THEN call.names[path]
    ELSE FilesystemName(path)

\* C1 as claimed: once a sync point with path P and name N is resolved (its
\* insert is made), every later projection of P is named N; every projection
\* of P that completed before carries the name then in force, which is not N.
C1_EveryLaterProjectionNamedN ==
    \A i \in 1..Len(events) :
        IsInsert(events[i]) =>
            \A j \in 1..Len(events) :
                (IsProjection(events[j]) /\ events[j].path = events[i].path) =>
                    IF j > i
                    THEN events[j].res.name = events[i].res.name
                    ELSE /\ events[j].res.name = NameInForce(events[j].path, j)
                         /\ events[j].res.name # events[i].res.name

\* C1 as amended: every projection of a path P that returns an instance is
\* named by the last sync point resolved for P before it, else by the entry
\* for P the call was given, else by the filesystem.  So after a sync point
\* (P, N) is resolved the projections of P are named N until another sync
\* point for P is resolved, and those that completed before do not see it.
C1_ProjectionNamedByLatestOverride ==
    \A j \in 1..Len(events) :
        IsProjection(events[j]) =>
            events[j].res.name = NameInForce(events[j].path, j)

\* A directory is projected after a sync point for it was resolved, and named
\* by that sync point
C1_Witness ==
    \E i, j \in 1..Len(events) :
        /\ i < j
        /\ IsInsert(events[i])
        /\ events[i].path = SRC_SUB
        /\ IsProjection(events[j])
        /\ events[j].fn = "snapshot_imfs_directory"
        /\ events[j].path = SRC_SUB
        /\ events[j].res.name = events[i].res.name
        /\ events[j].res.name # Str("sub")

\* The call event a sync point's return event at r answers
SyncPointCallOf(r) ==
    Last({ c \in 1..r : /\ events[c].ev = "call"
                        /\ events[c].fn = "snapshot_sync_point_node" })

\* C2 as claimed: every sync point visited makes exactly one insert, for its
\* path, after snapshot_imfs_path for that path has returned.
C2_OneInsertPerSyncPoint ==
    \A r \in 1..Len(events) :
        IsSyncPointRet(events[r]) =>
            LET c == SyncPointCallOf(r)
                inserts == { i \in c..r : IsInsert(events[i]) }
            IN  /\ Cardinality(inserts) = 1
                /\ \A i \in inserts :
                      /\ events[i].path = events[r].path
                      /\ \E k \in c..i :
                            /\ events[k].ev = "ret"
                            /\ events[k].fn = "snapshot_imfs_path"
                            /\ events[k].path = events[r].path

\* C2 as amended: a sync point whose path projects to an instance makes
\* exactly one insert, of its path and name, right after snapshot_imfs_path
\* for that path has returned; one whose path projects to no instance or to an
\* error makes none.  Nothing else writes the sync point names.
C2_OneInsertPerResolvedSyncPoint ==
    /\ \A r \in 1..Len(events) :
          IsSyncPointRet(events[r]) =>
              LET c == SyncPointCallOf(r)
                  inserts == { i \in c..r : IsInsert(events[i]) }
              IN  IF events[r].res.tag = "Some"
                  THEN /\ inserts = {r - 1}
                       /\ events[r - 1].path = events[r].path
                       /\ events[r - 1].res.name = events[r].res.name
                       /\ events[r - 2].ev = "ret"
                       /\ events[r - 2].fn = "snapshot_imfs_path"
                       /\ events[r - 2].path = events[r].path
                       /\ events[r - 2].res.tag = "Some"
                  ELSE inserts = {}
    /\ \A i \in 1..Len(events) :
          IsInsert(events[i]) =>
              /\ i < Len(events)
              /\ IsSyncPointRet(events[i + 1])
              /\ events[i + 1].path = events[i].path
    /\ DOMAIN sync_point_names =
          DOMAIN call.names \cup { events[i].path : i \in { k \in 1..Len(events) : IsInsert(events[k]) } }
    /\ \A p \in DOMAIN sync_point_names :
          sync_point_names[p] =
              IF InsertsBefore(p, Len(events)) # {}
              THEN events[Last(InsertsBefore(p, Len(events)))].res.name
              ELSE call.names[p]

\* A sync point that made its insert, and one before it that made none
C2_Witness ==
    \E r1, r2 \in 1..Len(events) :
        /\ r1 < r2
        /\ IsSyncPointRet(events[r1])
        /\ events[r1].res.tag = "None"
        /\ IsSyncPointRet(events[r2])
        /\ events[r2].res.tag = "Some"
        /\ sync_point_names[events[r2].path] = events[r2].res.name

\* The events that return an error
ErrorEvents == { i \in 1..Len(events) : events[i].ev = "ret" /\ events[i].res.tag = "Err" }

\* C9: an error raised anywhere is what the top-level call returns: after the
\* first error nothing more is called, every return hands the same error up,
\* the outcome is that error and no instance, and DidNotExist reports the
\* absent path snapshot_imfs_path was called on.
C9_ErrorAbortsProjection ==
    /\ \A i \in 1..Len(events) :
          ( /\ events[i].ev = "call"
            /\ events[i].fn = "snapshot_imfs_path"
            /\ events[i].path \notin DOMAIN imfs ) =>
              /\ i < Len(events)
              /\ events[i + 1] = RetEvent("snapshot_imfs_path", events[i].path,
                                          Err(DidNotExist(events[i].path)))
    /\ ErrorEvents # {} =>
          LET e == First(ErrorEvents)
              error == events[e].res
          IN  /\ \A j \in (e + 1)..Len(events) :
                    events[j].ev = "ret" /\ events[j].res = error
              /\ error.err.kind = "DidNotExist" =>
                    /\ error.err.path \notin DOMAIN imfs
                    /\ events[e].fn = "snapshot_imfs_path"
                    /\ events[e].path = error.err.path
              /\ pc = "run" => ret = error
              /\ pc = "done" => result = error
    /\ (pc = "done" /\ ErrorEvents = {}) => result.tag # "Err"

\* The second child path of a directory is absent: the third is not projected
\* and the error passes through the five calls above it
C9_Witness ==
    /\ pc = "done"
    /\ result = Err(DidNotExist(SRC_GHOST))
    /\ imfs[SRC].children = <<SRC_FOO, SRC_GHOST, SRC_SUB>>
    /\ call.fn = "snapshot_project_tree"
    /\ Cardinality(ErrorEvents) = 5

====
